---- MODULE Spec2Model ----
(***************************************************************************)
(* Model of the CIL training program: helper.py (AverageMeter) and         *)
(* main.py (the script, train, and the loss and best-metric expressions).  *)
(*                                                                         *)
(*  - The program, `python main.py <command line>`, is modelled as         *)
(*    written: helper.py defines save_checkpoint inside class              *)
(*    AverageMeter, so the import at main.py:20 raises ImportError and the *)
(*    process ends before the parser is built or main() is called.         *)
(*  - main(), train(), evaluate() and AverageMeter.save_checkpoint are    *)
(*    also modelled as the functions they are, each called on its own     *)
(*    with the namespace the parser builds: main() raises at line 104 at   *)
(*    the latest, train() and evaluate() raise in their first batch on     *)
(*    attributes the parser does not declare, save_checkpoint writes its   *)
(*    files.                                                               *)
(*  - The loss expressions of train() and evaluate(), the best-metric      *)
(*    update of main.py:150-151 and AverageMeter are modelled as           *)
(*    functions of their inputs.                                           *)
(*  - Scalars are exact: numbers are rationals <<num, den>>, and a value   *)
(*    built from torch.exp of an integer log-variance is a polynomial in   *)
(*    e, e^-1 with rational coefficients (e is transcendental, so two      *)
(*    such values are equal exactly when their coefficients are).          *)
(*  - Evaluation metrics are integers, negative ones included, and the    *)
(*    floats inf and nan, compared as Python compares them.                *)
(***************************************************************************)
EXTENDS Integers, Sequences, FiniteSets

\* ------------------------------------------------------------------ bounds
MaxVal == 2
MaxWeight == 2
MaxUpdates == 3
MaxEpochs == 4
MaxMetric == 5
MaxBatches == 4
MaxFreq == 2
NumOut == 2
MaxPred == 1
MaxLogVar == 1
MaxCalls == 2

\* ------------------------------------------------------- exact arithmetic
Abs(n) == IF n < 0 THEN -n ELSE n

RECURSIVE GCD(_, _)
GCD(a, b) == IF b = 0 THEN a ELSE GCD(b, a % b)

\* Python true division n / d (d > 0) as a rational in lowest terms.
Frac(n, d) ==
    LET g == GCD(Abs(n), d)
    IN  IF n = 0 THEN <<0, 1>> ELSE <<n \div g, d \div g>>

RatAdd(p, q) == Frac(p[1] * q[2] + q[1] * p[2], p[2] * q[2])
RatMul(p, q) == Frac(p[1] * q[1], p[2] * q[2])
RatInt(n) == <<n, 1>>

\* ------------------------------------------------ helper.py: AverageMeter
VARIABLES
    meter,      \* the AverageMeter object: val, avg, sum, count
    calls,      \* the update(val, n) calls since the last reset, in order
    mpc,        \* "run" while the meter is in use, "off" otherwise
    nupd        \* number of update calls made in this behaviour

VARIABLES
    inp,        \* one batch and the model's output on it
    outTrain,   \* losses train() computes on inp with net_structure != 1
    outSimple,  \* losses train() computes on inp with net_structure = 1
    outEval,    \* losses evaluate() computes on inp
    computed    \* which of the three have been computed

VARIABLES
    call,       \* what is run: the script, or one function called on its own
    cli,        \* the command line: the values the parser gives its knobs
    dirs,       \* the directories that exist, besides the working directory
    disk,       \* checkpoint files: path -> record
    nb,         \* len(loader) of the loader handed to train()
    pc,         \* where the process, or the call, is
    error,      \* the exception that ended it: type and place
    epoch,      \* the epoch argument of train()
    i,          \* the batch loop's variable in train()
    state_dict, \* model parameters: number of optimizer steps taken on them
    optimizer,  \* optimizer state: number of steps it has taken
    best_prec,  \* best metric so far
    prec,       \* the metric of the last epoch
    log,        \* operations of the process, in order
    emits,      \* train/* scalars written to the summary writer, in order
    hist,       \* per-epoch outcomes, in order
    entry       \* <<>>, or <<state>> with which the epoch loop was entered

meterVars == <<meter, calls, mpc, nupd>>
lossVars == <<inp, outTrain, outSimple, outEval, computed>>
mainVars == <<call, cli, dirs, disk, nb, pc, error, epoch, i, state_dict, optimizer,
              best_prec, prec, log, emits, hist, entry>>
vars == <<meterVars, lossVars, mainVars>>

MeterVals == (0 - 1) .. MaxVal
MeterWeights == 1 .. MaxWeight

\* def reset(self)
resetAs_KeepSum(m) == [val |-> 0, avg |-> RatInt(0), sum |-> m.sum, count |-> 0]
reset(m) == [val |-> 0, avg |-> RatInt(0), sum |-> 0, count |-> 0]

\* def update(self, val, n=1)
updateAs_Unweighted(m, v, n) ==
    LET s == m.sum + v
        c == m.count + n
    IN  [val |-> v, sum |-> s, count |-> c, avg |-> Frac(s, c)]
update(m, v, n) ==
    LET s == m.sum + v * n
        c == m.count + n
    IN  [val |-> v, sum |-> s, count |-> c, avg |-> Frac(s, c)]

\* AverageMeter(): __init__ calls reset on the new object.
NewMeter == reset([val |-> 0, avg |-> RatInt(0), sum |-> 0, count |-> 0])

MeterInit ==
    /\ meter = NewMeter
    /\ calls = <<>>
    /\ mpc = "run"
    /\ nupd = 0

MeterReset ==
    /\ mpc = "run"
    /\ meter' = reset(meter)
    /\ calls' = <<>>
    /\ UNCHANGED <<mpc, nupd>>

MeterUpdate ==
    /\ mpc = "run"
    /\ nupd < MaxUpdates
    /\ \E v \in MeterVals, n \in MeterWeights :
          /\ meter' = update(meter, v, n)
          /\ calls' = Append(calls, <<v, n>>)
    /\ nupd' = nupd + 1
    /\ UNCHANGED mpc


\* ------------------------------------------------- main.py: the script
\* A metric is a number <<0, m>>, math.inf <<1, 0>> or float nan <<2, 0>>.
Fin(m) == <<0, m>>
Inf == <<1, 0>>
NaN == <<2, 0>>
\* Python's a < b on floats: False whenever one of them is nan.
Lt(a, b) == /\ a # NaN /\ b # NaN
            /\ \/ a[1] < b[1]
               \/ a[1] = 0 /\ b[1] = 0 /\ a[2] < b[2]
\* Python's min(a, b): the first argument unless the second is smaller.
PyMin(a, b) == IF Lt(b, a) THEN b ELSE a

\* The values uncertain_losses.avg, which evaluate() returns, can have.
Metrics == {Fin(m) : m \in (0 - 1) .. MaxMetric} \cup {Inf, NaN}

\* Paths of files. NoPath is --resume left at '', MissingPath a --resume
\* that names no file, OldPath a --resume that names a checkpoint file
\* present before anything is run, Pretrained the file
\* ./save_models/new_structure_best.pth. CwdFile(n) is a file in the working
\* directory, run_file(n) is save_models/<id>/<n>_<id>.pth and best_file(id)
\* is save_models/<id>_best.pth.
NoPath == <<"", 0>>
MissingPath == <<"missing", 0>>
OldPath == <<"old", 0>>
Pretrained == <<"pretrained", 0>>
CwdFile(n) == <<"cwd", n>>
run_file(n) == <<"epoch", n>>
best_file(id) == <<"best", id>>

\* Directories: logs/<id>, runs/<id>, save_models, save_models/<id>.
LogDir == "logs/id"
RunDir == "runs/id"
SaveDir == "save_models"
SaveWeightDir == "save_models/id"
DirOf(p) == IF p[1] = "epoch" THEN SaveWeightDir
            ELSE IF p[1] \in {"best", "pretrained"} THEN SaveDir
            ELSE "."

NoFiles == [p \in {} |-> 0]
Put(d, p, r) == [q \in DOMAIN d \cup {p} |-> IF q = p THEN r ELSE d[q]]
OldCheckpoint ==
    [epoch |-> 1, state_dict |-> 1, best_prec |-> Fin(0), scheduler |-> 1,
     optimizer |-> 1]
FilesOf(S) == [p \in S |-> OldCheckpoint]
Disks == {NoFiles, FilesOf({OldPath})}

NoError == [type |-> "", at |-> ""]
Raised(type, at) == [type |-> type, at |-> at]

\* main.py:23-44: the knobs of the parser the model follows; gpu is <<>>
\* for None.
Clis ==
    [evaluate : BOOLEAN, epochs : 0 .. MaxEpochs, start_epoch : 0 .. MaxEpochs,
     resume : {NoPath, MissingPath, OldPath}, net_structure : {2},
     print_frequency : {10}, gpu : {<<>>}, world_size : {1}]

\* Nothing has run.
Fresh ==
    /\ error = NoError
    /\ epoch = 0 /\ i = 0 /\ state_dict = 0 /\ optimizer = 0
    /\ best_prec = Inf /\ prec = Fin(0)
    /\ log = <<>> /\ emits = <<>> /\ hist = <<>> /\ entry = <<>>

\* `python main.py <command line>` has been started, in a directory with
\* the files of disk.
MainInit ==
    /\ call = "script"
    /\ cli \in Clis
    /\ dirs = {}
    /\ disk \in Disks
    /\ nb = 1
    /\ pc = "import"
    /\ Fresh

\* main.py:1-20: the imports of the script. helper has no attribute
\* save_checkpoint (helper.py:27 defines it in the body of class
\* AverageMeter), so `from helper import AverageMeter, save_checkpoint`
\* raises ImportError and the process ends.
Import ==
    /\ pc = "import"
    /\ pc' = "raised"
    /\ error' = Raised("ImportError", "main.py:20")
    /\ UNCHANGED <<call, cli, dirs, disk, nb, epoch, i, state_dict, optimizer,
                   best_prec, prec, log, emits, hist, entry>>

LossIdle ==
    /\ inp = <<>> /\ outTrain = <<>> /\ outSimple = <<>> /\ outEval = <<>>
    /\ computed = {}

MeterOff ==
    /\ meter = NewMeter /\ calls = <<>> /\ mpc = "off" /\ nupd = 0

MainIdle ==
    /\ call = "" /\ cli = <<>> /\ dirs = {} /\ disk = NoFiles /\ nb = 0
    /\ pc = "off"
    /\ Fresh

\* ------------------------------- the functions, each called on its own
\* ------------------------------------------------------ main.py: main()
MainClis ==
    [evaluate : BOOLEAN, epochs : {1}, start_epoch : {0},
     resume : {NoPath, OldPath}, net_structure : {2}, print_frequency : {10},
     gpu : {<<>>, <<0>>}, world_size : {1, 2}]

\* The directories main() can find, and the files in them.
MainDirs ==
    {{}, {SaveDir}, {LogDir}, {SaveDir, SaveWeightDir},
     {LogDir, SaveDir, SaveWeightDir}}
MainDisks(ds) ==
    {FilesOf(S) : S \in SUBSET (IF SaveDir \in ds THEN {OldPath, Pretrained}
                                ELSE {OldPath})}

\* main() is called, with the command line cli in sys.argv.
MainCallInit ==
    /\ call = "main"
    /\ cli \in MainClis
    /\ dirs \in MainDirs
    /\ disk \in MainDisks(dirs)
    /\ nb = 1
    /\ pc = "main"
    /\ Fresh

\* main.py:57-64: os.makedirs raises FileExistsError when logs/<id> exists
\* (line 63) or, logs/<id> made, when save_models/<id> exists (line 64).
MainDirExists ==
    /\ call = "main" /\ pc = "main"
    /\ LogDir \in dirs \/ SaveWeightDir \in dirs
    /\ dirs' = dirs \cup {LogDir}
    /\ error' = Raised("FileExistsError",
                       IF LogDir \in dirs THEN "main.py:63" ELSE "main.py:64")
    /\ pc' = "raised"
    /\ UNCHANGED <<call, cli, disk, nb, epoch, i, state_dict, optimizer,
                   best_prec, prec, log, emits, hist, entry>>

\* The directories main.py:63-67 make: logs/<id>, save_models/<id> with its
\* parent, and runs/<id> of the SummaryWriter.
made_dirs(ds) == ds \cup {LogDir, SaveDir, SaveWeightDir, RunDir}

\* main.py:57-88 with --world_size above 1: init_process_group is handed
\* args.dist_backend, an attribute the namespace has not.
MainDistributed ==
    /\ call = "main" /\ pc = "main"
    /\ LogDir \notin dirs /\ SaveWeightDir \notin dirs
    /\ cli.world_size > 1
    /\ dirs' = made_dirs(dirs)
    /\ error' = Raised("AttributeError", "main.py:88")
    /\ pc' = "raised"
    /\ UNCHANGED <<call, cli, disk, nb, epoch, i, state_dict, optimizer,
                   best_prec, prec, log, emits, hist, entry>>

\* main.py:57-94 without ./save_models/new_structure_best.pth: torch.load
\* raises FileNotFoundError.
MainPretrainedMissing ==
    /\ call = "main" /\ pc = "main"
    /\ LogDir \notin dirs /\ SaveWeightDir \notin dirs
    /\ cli.world_size <= 1
    /\ Pretrained \notin DOMAIN disk
    /\ dirs' = made_dirs(dirs)
    /\ error' = Raised("FileNotFoundError", "main.py:94")
    /\ pc' = "raised"
    /\ UNCHANGED <<call, cli, disk, nb, epoch, i, state_dict, optimizer,
                   best_prec, prec, log, emits, hist, entry>>

\* main.py:57-104 otherwise: the arguments of optim.Adam read
\* model.uncertain_net, which the DataParallel wrapper of --gpu None has
\* not, and args.lr, which the namespace has not: AttributeError, before
\* the resume, the evaluate-only branch and the epoch loop.
MainOptimizer ==
    /\ call = "main" /\ pc = "main"
    /\ LogDir \notin dirs /\ SaveWeightDir \notin dirs
    /\ cli.world_size <= 1
    /\ Pretrained \in DOMAIN disk
    /\ dirs' = made_dirs(dirs)
    /\ error' = Raised("AttributeError", "main.py:104")
    /\ pc' = "raised"
    /\ UNCHANGED <<call, cli, disk, nb, epoch, i, state_dict, optimizer,
                   best_prec, prec, log, emits, hist, entry>>

\* ------------------------------------------------------ main.py: train()
TrainClis ==
    [evaluate : {FALSE}, epochs : {MaxEpochs}, start_epoch : {0},
     resume : {NoPath}, net_structure : {1, 2},
     print_frequency : 1 .. MaxFreq, gpu : {<<0>>}, world_size : {1}]

\* train(loader, model, criterion, optimizer, epoch, writer) is called with
\* a loader of nb batches, for epoch.
TrainInit ==
    /\ call = "train"
    /\ cli \in TrainClis
    /\ dirs = {} /\ disk = NoFiles
    /\ nb \in 0 .. MaxBatches
    /\ pc = "train"
    /\ error = NoError
    /\ epoch \in 0 .. MaxEpochs
    /\ i = 0 /\ state_dict = 0 /\ optimizer = 0
    /\ best_prec = Inf /\ prec = Fin(0)
    /\ log = <<>> /\ emits = <<>> /\ hist = <<>> /\ entry = <<>>

\* main.py:178-205, a batch with args.net_structure != 1: the losses are
\* computed, ori_losses is updated, and the next statement reads
\* args.bacth_size, an attribute the namespace has not: AttributeError,
\* before the optimizer steps and before anything is written.
TrainBatchUncertain ==
    /\ call = "train" /\ pc = "train"
    /\ i < nb
    /\ cli.net_structure # 1
    /\ pc' = "raised"
    /\ error' = Raised("AttributeError", "main.py:205")
    /\ UNCHANGED <<call, cli, dirs, disk, nb, epoch, i, state_dict, optimizer,
                   best_prec, prec, log, emits, hist, entry>>

\* main.py:178-228, a batch with args.net_structure = 1: the losses are
\* computed, the meters updated, the optimizer steps, and the test of line
\* 228 reads args.print_freq, an attribute the namespace has not:
\* AttributeError, before anything is written.
TrainBatchSimple ==
    /\ call = "train" /\ pc = "train"
    /\ i < nb
    /\ cli.net_structure = 1
    /\ state_dict' = state_dict + 1
    /\ optimizer' = optimizer + 1
    /\ pc' = "raised"
    /\ error' = Raised("AttributeError", "main.py:228")
    /\ UNCHANGED <<call, cli, dirs, disk, nb, epoch, i, best_prec, prec, log,
                   emits, hist, entry>>

\* main.py:178 and 257: the loader is exhausted and train() returns
TrainReturn ==
    /\ call = "train" /\ pc = "train"
    /\ i = nb
    /\ pc' = "returned"
    /\ UNCHANGED <<call, cli, dirs, disk, nb, error, epoch, i, state_dict,
                   optimizer, best_prec, prec, log, emits, hist, entry>>

\* --------------------------------------------------- main.py: evaluate()
\* evaluate(loader, model, criterion, epoch, writer) is called with a loader
\* of nb batches, for epoch.
EvalInit ==
    /\ call = "evaluate"
    /\ cli \in TrainClis
    /\ dirs = {} /\ disk = NoFiles
    /\ nb \in 0 .. MaxBatches
    /\ pc = "evaluate"
    /\ error = NoError
    /\ epoch \in 0 .. MaxEpochs
    /\ i = 0 /\ state_dict = 0 /\ optimizer = 0
    /\ best_prec = Inf /\ prec = Fin(0)
    /\ log = <<>> /\ emits = <<>> /\ hist = <<>> /\ entry = <<>>

\* main.py:271-272: the first statement of a batch reads args.cpu, an
\* attribute the namespace has not: AttributeError.
EvalBatch ==
    /\ call = "evaluate" /\ pc = "evaluate"
    /\ i < nb
    /\ pc' = "raised"
    /\ error' = Raised("AttributeError", "main.py:272")
    /\ UNCHANGED <<call, cli, dirs, disk, nb, epoch, i, state_dict, optimizer,
                   best_prec, prec, log, emits, hist, entry>>

\* main.py:310-313: the four eval/* scalars, the avg of each meter at
\* epoch + 1.
eval_scalars(e, avg) ==
    <<[tag |-> "eval/uncertain_loss", value |-> avg, step |-> e + 1],
      [tag |-> "eval/origin_loss", value |-> avg, step |-> e + 1],
      [tag |-> "eval/control_uncertain", value |-> avg, step |-> e + 1],
      [tag |-> "eval/speed_uncertain", value |-> avg, step |-> e + 1]>>

\* main.py:271 and 310-330: the loader is exhausted; the meters, never
\* updated, have avg 0, which is written and returned.
EvalReturn ==
    /\ call = "evaluate" /\ pc = "evaluate"
    /\ i = nb
    /\ emits' = eval_scalars(epoch, NewMeter.avg)
    /\ prec' = Fin(NewMeter.avg[1])
    /\ pc' = "returned"
    /\ UNCHANGED <<call, cli, dirs, disk, nb, error, epoch, i, state_dict,
                   optimizer, best_prec, log, hist, entry>>

\* ------------------------------- helper.py: AverageMeter.save_checkpoint
\* helper.py:27-33: torch.save writes filename, which fails when its
\* directory is missing; when is_best the file is copied to
\* save_models/<id_>_best.pth, which fails, the file written, when
\* save_models is missing.
save_checkpoint(d, ds, state, id_, is_best, filename) ==
    IF DirOf(filename) \notin ds \cup {"."}
    THEN [disk |-> d, error |-> Raised("FileNotFoundError", "helper.py:28")]
    ELSE LET saved == Put(d, filename, state)
         IN  IF ~is_best THEN [disk |-> saved, error |-> NoError]
             ELSE IF SaveDir \notin ds
             THEN [disk |-> saved,
                   error |-> Raised("FileNotFoundError", "helper.py:30")]
             ELSE [disk |-> Put(saved, best_file(id_), saved[filename]),
                   error |-> NoError]

CheckpointStates ==
    {[OldCheckpoint EXCEPT !.epoch = e] : e \in 1 .. MaxCalls}
Filenames == {CwdFile(1), run_file(1), run_file(2)}
Ids == {1, 2}

\* AverageMeter.save_checkpoint is about to be called, in a directory with
\* the directories dirs and no file.
SaveInit ==
    /\ call = "save_checkpoint"
    /\ cli = <<>>
    /\ dirs \in {{}, {SaveDir}, {SaveDir, SaveWeightDir}}
    /\ disk = NoFiles
    /\ nb = 0
    /\ pc = "save"
    /\ Fresh

\* One call of AverageMeter.save_checkpoint(state, id_, is_best, filename).
SaveCall ==
    /\ call = "save_checkpoint" /\ pc = "save"
    /\ Len(log) < MaxCalls
    /\ \E state \in CheckpointStates, id_ \in Ids, best \in BOOLEAN,
          filename \in Filenames :
          LET r == save_checkpoint(disk, dirs, state, id_, best, filename)
          IN  /\ disk' = r.disk
              /\ error' = r.error
              /\ pc' = IF r.error = NoError THEN "save" ELSE "raised"
              /\ log' = Append(log, <<"save", state.epoch, id_, best, filename>>)
    /\ UNCHANGED <<call, cli, dirs, nb, epoch, i, state_dict, optimizer,
                   best_prec, prec, emits, hist, entry>>

\* The script is started, or one of its functions is called.
Init ==
    /\ MainInit \/ MainCallInit \/ TrainInit \/ EvalInit \/ SaveInit
    /\ LossIdle /\ MeterOff

Next ==
    \/ (Import /\ UNCHANGED <<meterVars, lossVars>>)
    \/ (MainDirExists /\ UNCHANGED <<meterVars, lossVars>>)
    \/ (MainDistributed /\ UNCHANGED <<meterVars, lossVars>>)
    \/ (MainPretrainedMissing /\ UNCHANGED <<meterVars, lossVars>>)
    \/ (MainOptimizer /\ UNCHANGED <<meterVars, lossVars>>)
    \/ (TrainBatchUncertain /\ UNCHANGED <<meterVars, lossVars>>)
    \/ (TrainBatchSimple /\ UNCHANGED <<meterVars, lossVars>>)
    \/ (TrainReturn /\ UNCHANGED <<meterVars, lossVars>>)
    \/ (EvalBatch /\ UNCHANGED <<meterVars, lossVars>>)
    \/ (EvalReturn /\ UNCHANGED <<meterVars, lossVars>>)
    \/ (SaveCall /\ UNCHANGED <<meterVars, lossVars>>)

Spec == Init /\ [][Next]_vars

\* ------------------------------------- main.py:150-151: the best metric
\* main.py:150
is_best(p, best) == Lt(p, best)

\* main.py:151
min_prec(p, best) == PyMin(p, best)

\* The best metric before the first update: math.inf (main.py:107) or the
\* best metric of a checkpoint (main.py:119).
BestInit ==
    /\ call = "best"
    /\ cli = <<>> /\ dirs = {} /\ disk = NoFiles /\ nb = 0
    /\ pc = "best"
    /\ error = NoError
    /\ epoch = 0 /\ i = 0 /\ state_dict = 0 /\ optimizer = 0
    /\ best_prec \in Metrics
    /\ prec = Fin(0)
    /\ log = <<>> /\ emits = <<>> /\ hist = <<>>
    /\ entry = <<[epoch |-> 0, best |-> best_prec]>>

\* main.py:150-151 applied to the metric m of one more epoch
BestUpdate ==
    /\ pc = "best"
    /\ Len(hist) < MaxEpochs
    /\ \E m \in Metrics :
          /\ prec' = m
          /\ best_prec' = min_prec(m, best_prec)
          /\ hist' = Append(hist, [prec |-> m,
                                   best |-> min_prec(m, best_prec),
                                   is_best |-> is_best(m, best_prec)])
    /\ UNCHANGED <<call, cli, dirs, disk, nb, pc, error, epoch, i, state_dict,
                   optimizer, log, emits, entry>>

BestSpecInit == BestInit /\ LossIdle /\ MeterOff

BestNext == BestUpdate /\ UNCHANGED <<meterVars, lossVars>>

SpecBest == BestSpecInit /\ [][BestNext]_vars

\* ------------------------------------------------ helper.py: AverageMeter
MeterSpecInit == MeterInit /\ LossIdle /\ MainIdle

MeterNext ==
    \/ (MeterReset /\ UNCHANGED <<lossVars, mainVars>>)
    \/ (MeterUpdate /\ UNCHANGED <<lossVars, mainVars>>)

SpecMeter == MeterSpecInit /\ [][MeterNext]_vars

\* ------------------------------------------- main.py: the loss computations
\* A scalar is a polynomial in e and 1/e: exponent -> rational coefficient.
Exps == (0 - MaxLogVar) .. MaxLogVar
Mono(k, r) == [x \in Exps |-> IF x = k THEN r ELSE RatInt(0)]
Scalar(r) == Mono(0, r)
PolyAdd(p, q) == [x \in Exps |-> RatAdd(p[x], q[x])]
PolyScale(r, p) == [x \in Exps |-> RatMul(r, p[x])]

RECURSIVE PolySum(_)
PolySum(t) == IF t = <<>> THEN Scalar(RatInt(0)) ELSE PolyAdd(Head(t), PolySum(Tail(t)))

\* torch.mean of a tensor given as the sequence of its elements
Mean(t) == PolyScale(Frac(1, Len(t)), PolySum(t))

\* torch.exp of an integer
Exp(k) == Mono(k, RatInt(1))

\* torch.pow(a - b, 2), elementwise
Square(a, b) == [j \in 1 .. Len(a) |-> (a[j] - b[j]) * (a[j] - b[j])]

\* nn.MSELoss(): criterion(a, b)
criterion(a, b) == Mean([j \in 1 .. Len(a) |-> Scalar(RatInt(Square(a, b)[j]))])

Half == Frac(1, 2)
Weighted(x, branch, speed) ==
    PolyAdd(PolyScale(x.branch_weight, branch), PolyScale(x.speed_weight, speed))

\* main.py:188-202: the losses of train() when args.net_structure != 1.
\* log_var_speed has one element per sample and is broadcast over the
\* sample's branch outputs; the batch is one sample.
train_uncertainAs_NoHalf(x) ==
    LET branch_square == Square(x.branches_out, x.target)
        branch_loss ==
            PolyScale(RatInt(4), Mean([j \in 1 .. NumOut |->
                PolyScale(RatInt(x.mask[j]),
                    PolyAdd(PolyScale(RatInt(branch_square[j]), Exp(0 - x.log_var_control[j])),
                            Scalar(RatInt(x.log_var_speed[1]))))]))
        speed_square == Square(x.pred_speed, x.speed)
        speed_loss ==
            Mean([j \in 1 .. Len(x.speed) |->
                PolyScale(Half,
                    PolyAdd(PolyScale(RatInt(speed_square[j]), Exp(0 - x.log_var_speed[j])),
                            Scalar(RatInt(x.log_var_speed[j]))))])
    IN  [branch_loss |-> branch_loss,
         speed_loss |-> speed_loss,
         uncertain_loss |-> Weighted(x, branch_loss, speed_loss),
         ori_loss |-> Weighted(x,
             Mean([j \in 1 .. NumOut |-> Scalar(RatInt(branch_square[j] * x.mask[j] * 4))]),
             Mean([j \in 1 .. Len(x.speed) |-> Scalar(RatInt(speed_square[j]))])),
         uncertain_control_mean |->
             Mean([j \in 1 .. NumOut |->
                 PolyScale(RatInt(x.mask[j] * 4), Exp(x.log_var_control[j]))]),
         uncertain_speed_mean |->
             Mean([j \in 1 .. Len(x.speed) |-> Exp(x.log_var_speed[j])])]
train_uncertain(x) ==
    LET branch_square == Square(x.branches_out, x.target)
        branch_loss ==
            PolyScale(RatInt(4), Mean([j \in 1 .. NumOut |->
                PolyScale(RatMul(Half, RatInt(x.mask[j])),
                    PolyAdd(PolyScale(RatInt(branch_square[j]), Exp(0 - x.log_var_control[j])),
                            Scalar(RatInt(x.log_var_speed[1]))))]))
        speed_square == Square(x.pred_speed, x.speed)
        speed_loss ==
            Mean([j \in 1 .. Len(x.speed) |->
                PolyScale(Half,
                    PolyAdd(PolyScale(RatInt(speed_square[j]), Exp(0 - x.log_var_speed[j])),
                            Scalar(RatInt(x.log_var_speed[j]))))])
    IN  [branch_loss |-> branch_loss,
         speed_loss |-> speed_loss,
         uncertain_loss |-> Weighted(x, branch_loss, speed_loss),
         ori_loss |-> Weighted(x,
             Mean([j \in 1 .. NumOut |-> Scalar(RatInt(branch_square[j] * x.mask[j] * 4))]),
             Mean([j \in 1 .. Len(x.speed) |-> Scalar(RatInt(speed_square[j]))])),
         uncertain_control_mean |->
             Mean([j \in 1 .. NumOut |->
                 PolyScale(RatInt(x.mask[j] * 4), Exp(x.log_var_control[j]))]),
         uncertain_speed_mean |->
             Mean([j \in 1 .. Len(x.speed) |-> Exp(x.log_var_speed[j])])]

\* main.py:209-212: the losses of train() when args.net_structure = 1
train_simple(x) ==
    LET branch_loss ==
            PolyScale(RatInt(4),
                criterion([j \in 1 .. NumOut |-> x.branches_out[j] * x.mask[j]], x.target))
        speed_loss == criterion(x.pred_speed, x.speed)
    IN  [branch_loss |-> branch_loss,
         speed_loss |-> speed_loss,
         uncertain_loss |-> Weighted(x, branch_loss, speed_loss)]

\* main.py:279-297: the losses of evaluate()
evaluate_losses(x) ==
    LET mask_out == [j \in 1 .. NumOut |-> x.branches_out[j] * x.mask[j]]
        ori_branch_loss == PolyScale(RatInt(4), criterion(mask_out, x.target))
        ori_speed_loss == criterion(x.pred_speed, x.speed)
        branch_loss ==
            PolyScale(RatInt(4), Mean([j \in 1 .. NumOut |->
                PolyScale(RatMul(Half, RatInt(x.mask[j])),
                    PolyAdd(PolyScale(RatInt(Square(x.branches_out, x.target)[j]),
                                      Exp(0 - x.log_var_control[j])),
                            Scalar(RatInt(x.log_var_control[j]))))]))
        speed_loss ==
            Mean([j \in 1 .. Len(x.speed) |->
                PolyScale(Half,
                    PolyAdd(PolyScale(RatInt(Square(x.pred_speed, x.speed)[j]),
                                      Exp(0 - x.log_var_speed[j])),
                            Scalar(RatInt(x.log_var_speed[j]))))])
    IN  [branch_loss |-> branch_loss,
         speed_loss |-> speed_loss,
         uncertain_loss |-> Weighted(x, branch_loss, speed_loss),
         ori_loss |-> Weighted(x, ori_branch_loss, ori_speed_loss),
         uncertain_control_mean |->
             Mean([j \in 1 .. NumOut |->
                 PolyScale(RatInt(x.mask[j] * 4), Exp(x.log_var_control[j]))]),
         uncertain_speed_mean |->
             Mean([j \in 1 .. Len(x.speed) |-> Exp(x.log_var_speed[j])])]

Preds == 0 .. MaxPred
LogVars == (0 - MaxLogVar) .. MaxLogVar
\* --branch_weight and --speed_weight: the parser's defaults, and 1 and 0
DefaultWeights == {<<Frac(1, 10), Frac(1, 10)>>}
WeightPairs == DefaultWeights \cup {<<RatInt(1), RatInt(0)>>}

\* One batch of one sample, and the model's output on it.
Inputs(logvars, weights) ==
    {[branches_out |-> b, target |-> t, mask |-> m, log_var_control |-> lc,
      pred_speed |-> <<ps>>, speed |-> <<sp>>, log_var_speed |-> <<ls>>,
      branch_weight |-> w[1], speed_weight |-> w[2]] :
        b \in [1 .. NumOut -> Preds], t \in [1 .. NumOut -> Preds],
        m \in [1 .. NumOut -> {0, 1}], lc \in [1 .. NumOut -> logvars],
        ps \in Preds, sp \in Preds, ls \in logvars, w \in weights}

LossInit(logvars, weights) ==
    /\ inp \in Inputs(logvars, weights)
    /\ outTrain = <<>> /\ outSimple = <<>> /\ outEval = <<>>
    /\ computed = {}

TrainUncertain ==
    /\ "train" \notin computed
    /\ outTrain' = train_uncertain(inp)
    /\ computed' = computed \cup {"train"}
    /\ UNCHANGED <<inp, outSimple, outEval>>

TrainSimple ==
    /\ "simple" \notin computed
    /\ outSimple' = train_simple(inp)
    /\ computed' = computed \cup {"simple"}
    /\ UNCHANGED <<inp, outTrain, outEval>>

EvaluateLosses ==
    /\ "eval" \notin computed
    /\ outEval' = evaluate_losses(inp)
    /\ computed' = computed \cup {"eval"}
    /\ UNCHANGED <<inp, outTrain, outSimple>>

\* The two passes over a four-output model, for any log-variances.
LossInitAny == LossInit(LogVars, WeightPairs) /\ MeterOff /\ MainIdle

LossNext ==
    \/ (TrainUncertain /\ UNCHANGED <<meterVars, mainVars>>)
    \/ (EvaluateLosses /\ UNCHANGED <<meterVars, mainVars>>)

SpecLoss == LossInitAny /\ [][LossNext]_vars

\* The two modes of train(), with both log-variances 0 everywhere.
LossInitZero == LossInit({0}, DefaultWeights) /\ MeterOff /\ MainIdle

LossZeroNext ==
    \/ (TrainUncertain /\ UNCHANGED <<meterVars, mainVars>>)
    \/ (TrainSimple /\ UNCHANGED <<meterVars, mainVars>>)

SpecLossZero == LossInitZero /\ [][LossZeroNext]_vars

\* --------------------------------------------------------------- claims
Max(a, b) == IF a > b THEN a ELSE b
Count(s, op) == Cardinality({k \in 1 .. Len(s) : s[k][1] = op})

\* The process has ended: main() returned, or an exception ended it.
Over == call \in {"script", "main"} /\ pc \in {"returned", "raised"}
TrainingOver == Over /\ ~cli.evaluate
Resumed == cli.resume \in DOMAIN disk

\* The epoch and best metric the specification has the loop start with.
StatedStart == IF Resumed THEN disk[cli.resume].epoch ELSE 0
StatedBest == IF Resumed THEN disk[cli.resume].best_prec ELSE Inf
\* The epoch range(args.start_epoch, args.epochs) starts with (main.py:113
\* and 143).
StartEpoch == IF Resumed THEN disk[cli.resume].epoch ELSE cli.start_epoch

\* What a training run over the epochs s .. t-1 does, in order.
RECURSIVE ExpectedLog(_, _)
ExpectedLog(s, t) ==
    IF s >= t THEN <<>>
    ELSE <<<<"step", s>>, <<"train", s>>, <<"eval", s>>, <<"save", s + 1>>>>
         \o ExpectedLog(s + 1, t)

\* The files the specification has a run write: the per-epoch checkpoint
\* labelled e + 1 and the best record of the run.
PerEpochFile(e) == run_file(e + 1)
BestFile == best_file(1)

\* C1: once a training process is over it has processed every epoch of
\* [start_epoch, total_epochs) once, in increasing order, each as schedule
\* step, Train, Evaluate, checkpoint e+1, and has written total_epochs -
\* start_epoch per-epoch checkpoints.
C1_EpochLoop ==
    TrainingOver =>
      /\ log = ExpectedLog(StartEpoch, cli.epochs)
      /\ StartEpoch <= cli.epochs => Count(log, "save") = cli.epochs - StartEpoch
      /\ \A e \in StartEpoch .. cli.epochs - 1 : PerEpochFile(e) \in DOMAIN disk

MetricsOf(h) == [k \in 1 .. Len(h) |-> h[k].prec]
BestsOf(h) == [k \in 1 .. Len(h) |-> h[k].best]
FlagsOf(h) == [k \in 1 .. Len(h) |-> h[k].is_best]
BestBefore(k) == IF k = 1 THEN entry[1].best ELSE hist[k - 1].best
Seen(k) == {entry[1].best} \cup {hist[j].prec : j \in 1 .. k}
\* m is the minimum of S: an element of S that equals or is below every other.
IsLeast(m, S) == m \in S /\ \A x \in S : m = x \/ Lt(m, x)

\* C2: after each epoch the best metric is the minimum of the initial best
\* metric and the metrics seen so far, it never increases (it is the best
\* metric before the epoch or below it), and is_best holds exactly when the
\* epoch's metric is strictly below the best metric before the epoch;
\* metrics 5, 3, 4, 2 from +infinity give bests 5, 3, 3, 2 and flags true,
\* true, false, true.
C2_BestMetric ==
    pc = "best" =>
      /\ \A k \in 1 .. Len(hist) :
            /\ IsLeast(hist[k].best, Seen(k))
            /\ hist[k].best = BestBefore(k) \/ Lt(hist[k].best, BestBefore(k))
            /\ hist[k].is_best = Lt(hist[k].prec, BestBefore(k))
      /\ best_prec = IF hist = <<>> THEN entry[1].best ELSE hist[Len(hist)].best
      /\ entry[1].best = Inf /\ MetricsOf(hist) = <<Fin(5), Fin(3), Fin(4), Fin(2)>> =>
            /\ BestsOf(hist) = <<Fin(5), Fin(3), Fin(3), Fin(2)>>
            /\ FlagsOf(hist) = <<TRUE, TRUE, FALSE, TRUE>>

\* best_prec 3, then the metrics nan and 4: neither is flagged best, and
\* the best metric ends at 4.
C2_WitnessNaN ==
    /\ pc = "best" /\ entry[1].best = Fin(3)
    /\ MetricsOf(hist) = <<NaN, Fin(4)>>
    /\ BestsOf(hist) = <<NaN, Fin(4)>>
    /\ FlagsOf(hist) = <<FALSE, FALSE>>

BestEpochs == {k \in 1 .. Len(hist) : hist[k].is_best}
LastBest == CHOOSE k \in BestEpochs : \A j \in BestEpochs : j <= k

\* C3: once a training process is over, every epoch of its range is in the
\* run's history with its per-epoch checkpoint written, and the run's best
\* record is a copy of the per-epoch checkpoint of the most recent epoch with
\* is_best, holding the current best metric and that epoch's number.
C3_BestRecord ==
    TrainingOver =>
      /\ Len(hist) = Max(cli.epochs - StartEpoch, 0)
      /\ \A k \in 1 .. Len(hist) :
            PerEpochFile(StartEpoch + k - 1) \in DOMAIN disk
      /\ BestEpochs # {} =>
            /\ BestFile \in DOMAIN disk
            /\ disk[BestFile] = disk[PerEpochFile(StartEpoch + LastBest - 1)]
            /\ disk[BestFile].best_prec = best_prec
            /\ disk[BestFile].epoch = StartEpoch + LastBest

\* C4: an evaluate-only process never trains, never steps the schedule and
\* writes no checkpoint; it runs Evaluate once and returns when --resume
\* names a file, and logs the problem and returns, without raising and
\* without running Evaluate, when --resume is missing or names no file.
C4_EvaluateOnly ==
    call \in {"script", "main"} /\ cli.evaluate =>
      /\ Count(log, "train") = 0 /\ Count(log, "step") = 0 /\ Count(log, "save") = 0
      /\ \A p \in DOMAIN disk : p[1] \notin {"epoch", "best"}
      /\ Over =>
            /\ pc = "returned"
            /\ log = IF Resumed THEN <<<<"eval", 0>>>> ELSE <<<<"error", 0>>>>

\* C5: a training process enters the epoch loop; without a usable --resume
\* it enters it at epoch 0 with best metric +infinity whatever the command
\* line, with one at the checkpoint's epoch with the checkpoint's best metric.
C5_StartEpoch ==
    TrainingOver =>
      entry = <<[epoch |-> StatedStart, best |-> StatedBest]>>

\* C10: a run resumed from the checkpoint of epoch k starts at the epoch
\* after k with the saved best metric and goes on as the run that was not
\* stopped: once the resumed process is over, the epochs from the
\* checkpoint's to total_epochs - 1 have each been trained once, in order.
C10_ResumeEquivalence ==
    TrainingOver /\ Resumed =>
      /\ entry # <<>>
      /\ entry[1].epoch = disk[cli.resume].epoch
      /\ entry[1].best = disk[cli.resume].best_prec
      /\ Count(log, "train") = Max(cli.epochs - disk[cli.resume].epoch, 0)
      /\ \A e \in disk[cli.resume].epoch .. cli.epochs - 1 :
            Cardinality({k \in 1 .. Len(log) : log[k] = <<"train", e>>}) = 1

\* The batches of its loader train() has taken up: all of them once it has
\* returned, those up to the one it raised in otherwise.
RECURSIVE BatchesOf(_, _, _)
BatchesOf(e, from, upto) ==
    IF from >= upto THEN <<>>
    ELSE <<<<e, from>>>> \o BatchesOf(e, from + 1, upto)
Processed ==
    BatchesOf(epoch, 0, IF pc = "returned" THEN nb
                        ELSE IF pc = "raised" THEN i + 1 ELSE i)

RECURSIVE Select(_, _)
Select(bs, freq) ==
    IF bs = <<>> THEN <<>>
    ELSE LET e == Head(bs)[1]
             b == Head(bs)[2]
         IN  (IF (\E q \in 0 .. b : b = q * freq) \/ b = nb - 1
              THEN <<[step |-> e * nb + b, epoch |-> e, i |-> b]>>
              ELSE <<>>)
             \o Select(Tail(bs), freq)

\* C8: the snapshots train() has written are those of the batches whose index
\* is a multiple of the print frequency or the last of the epoch, each keyed
\* by epoch * batches_per_epoch + index, the keys increasing strictly.
C8_Emits ==
    call = "train" =>
      /\ emits = Select(Processed, cli.print_frequency)
      /\ \A j, k \in 1 .. Len(emits) : j < k => emits[j].step < emits[k].step

\* The branch loss as the specification writes it for both passes:
\* mean((exp(-log_var_control) * branch_sq + log_var_speed) * 0.5 * mask) * 4
StatedBranchLoss(x) ==
    PolyScale(RatInt(4), Mean([j \in 1 .. NumOut |->
        PolyScale(Frac(x.mask[j], 2),
            PolyAdd(PolyScale(RatInt(Square(x.branches_out, x.target)[j]),
                              Exp(0 - x.log_var_control[j])),
                    Scalar(RatInt(x.log_var_speed[1]))))]))

\* C6: evaluate() computes, from the same batch and model output, the branch
\* loss, speed loss and combined loss train() computes in uncertainty mode,
\* the branch loss being the stated one in both.
C6_SameLosses ==
    {"train", "eval"} \subseteq computed =>
      /\ outEval.branch_loss = outTrain.branch_loss
      /\ outEval.speed_loss = outTrain.speed_loss
      /\ outEval.uncertain_loss = outTrain.uncertain_loss
      /\ outTrain.branch_loss = StatedBranchLoss(inp)
      /\ outEval.branch_loss = StatedBranchLoss(inp)

MaskedTargetsZero(x) == \A j \in 1 .. NumOut : x.mask[j] = 0 => x.target[j] = 0

\* C7 as stated: with both log-variances 0 the uncertainty-mode branch loss
\* is half the simple-mode branch loss and the uncertainty-mode speed loss is
\* half the simple-mode speed loss, for every prediction, target and mask.
C7_Original ==
    {"train", "simple"} \subseteq computed =>
      /\ outTrain.branch_loss = PolyScale(Half, outSimple.branch_loss)
      /\ outTrain.speed_loss = PolyScale(Half, outSimple.speed_loss)

\* C7 (amended): with both log-variances 0 the uncertainty-mode speed loss is
\* half the simple-mode speed loss, and the uncertainty-mode branch loss is
\* half the simple-mode branch loss exactly when the target is 0 wherever the
\* mask is 0.
C7_HalfSimple ==
    {"train", "simple"} \subseteq computed =>
      /\ outTrain.speed_loss = PolyScale(Half, outSimple.speed_loss)
      /\ MaskedTargetsZero(inp) <=>
            outTrain.branch_loss = PolyScale(Half, outSimple.branch_loss)

C7_Witness ==
    /\ {"train", "simple"} \subseteq computed
    /\ MaskedTargetsZero(inp)
    /\ inp.mask[1] = 0 /\ inp.mask[2] = 1 /\ inp.branches_out[1] = 1
    /\ outTrain.branch_loss # Scalar(RatInt(0))
    /\ outTrain.speed_loss = Scalar(Half)

\* The calls since the last reset, summed.
RECURSIVE SumVW(_)
SumVW(cs) == IF cs = <<>> THEN 0 ELSE Head(cs)[1] * Head(cs)[2] + SumVW(Tail(cs))
RECURSIVE SumW(_)
SumW(cs) == IF cs = <<>> THEN 0 ELSE Head(cs)[2] + SumW(Tail(cs))

\* C9: after reset() and updates with positive weights, val is the last
\* value, sum the weighted sum of the values, count the sum of the weights and
\* avg the quotient sum / count; right after reset() all four are 0.
C9_Meter ==
    mpc = "run" =>
      /\ meter.sum = SumVW(calls)
      /\ meter.count = SumW(calls)
      /\ calls # <<>> =>
            /\ meter.val = calls[Len(calls)][1]
            /\ meter.count > 0 /\ meter.avg[2] > 0
            /\ meter.avg[1] * SumW(calls) = SumVW(calls) * meter.avg[2]
      /\ calls = <<>> =>
            /\ meter.val = 0 /\ meter.sum = 0 /\ meter.count = 0
            /\ meter.avg = RatInt(0)

C9_Witness ==
    /\ mpc = "run" /\ Len(calls) = 2
    /\ calls[1] = <<2, 1>> /\ calls[2] = <<0 - 1, 2>>
    /\ meter.val = 0 - 1 /\ meter.sum = 0 /\ meter.count = 3
    /\ meter.avg = RatInt(0)

C9_WitnessReset ==
    /\ mpc = "run" /\ nupd = 2 /\ calls = <<>>
    /\ meter.sum = 0 /\ meter.avg = RatInt(0)

====
